---- MODULE Spec2Model ----
(***************************************************************************)
(* A model of clean_and_count_lines.py: the per-file classification, the   *)
(* markup fragment extractor, the payload decoder, the text normalizer and *)
(* the statistics counters.                                                *)
(*                                                                         *)
(* Text is a sequence of code points, a byte string a sequence of 0..255.  *)
(* A file's content is a sequence of chunks: runs of bytes, and the start  *)
(* and end tags the XML parser would see.                                  *)
(***************************************************************************)
EXTENDS Integers, Sequences, FiniteSets, TLC

VARIABLES
    cfg,        \* the block rules: GLOBAL_BLOCKED_TAGS, PER_EXTENSION_BLOCKED_TAGS
    source,     \* the files under source_root
    pending,    \* how many files os.walk has still to yield
    pc,         \* where the program is
    stats,      \* the statistics dictionary
    stats0,     \* stats at the entry of the current process_single_file call
    cur,        \* the file being processed
    decision,   \* the route process_single_file took for cur
    header,     \* what read_header returned for cur
    head,       \* what the 128-byte read of is_probably_xml returned for cur
    xml_text,   \* load_xml_text's result for cur, once it has returned
    tree,       \* the element tree ET.fromstring built
    stack,      \* the elements walk has still to enter, next first
    visited,    \* the elements walk has entered, in order
    lines,      \* the fragments collected so far
    extracted,  \* extract_interesting_xml_fragments' result
    outfile,    \* what was written to dst for cur
    payload,    \* the bytes raw encodes, when it encodes any
    raw,        \* the argument of decode_rawitemdata_base64
    decoded,    \* its result
    text,       \* the argument of remove_empty_lines_normalized
    once,       \* its result
    twice       \* the result of applying it to once

vars == <<cfg, source, pending, pc, stats, stats0, cur, decision, header, head,
          xml_text, tree, stack, visited, lines, extracted, outfile,
          payload, raw, decoded, text, once, twice>>

pipeVars == <<cfg, source, pending, stats, stats0, cur, decision, header, head,
              xml_text, tree, stack, visited, lines, extracted, outfile>>

(***************************************************************************)
(* Bounds                                                                  *)
(***************************************************************************)
MaxFiles == 2

MaxNodes == 3

MaxText == 4

MaxLen == 66

MaxCtl == 21

(***************************************************************************)
(* Optional values                                                         *)
(***************************************************************************)
None == [some |-> FALSE, v |-> <<>>]

Some(x) == [some |-> TRUE, v |-> x]

(***************************************************************************)
(* Sequences                                                               *)
(***************************************************************************)
MinOf(S) == CHOOSE x \in S : \A y \in S : x <= y

MaxOf(S) == CHOOSE x \in S : \A y \in S : x >= y

Take(s, n) == SubSeq(s, 1, IF n < Len(s) THEN n ELSE Len(s))

Rep(x, n) == [i \in 1..n |-> x]

RECURSIVE Concat(_)
Concat(ss) == IF ss = <<>> THEN <<>> ELSE Head(ss) \o Concat(Tail(ss))

StartsWith(s, p) == Len(p) <= Len(s) /\ SubSeq(s, 1, Len(p)) = p

(***************************************************************************)
(* str.isspace, str.strip, str.lstrip, str.split, str.splitlines,          *)
(* str.join, for code points below 256                                     *)
(***************************************************************************)
IsSpace(c) == c \in {9, 10, 11, 12, 13, 28, 29, 30, 31, 32, 133, 160}

IsLineBreak(c) == c \in {10, 11, 12, 13, 28, 29, 30, 133}

LStrip(s) ==
    LET keep == {i \in 1..Len(s) : ~IsSpace(s[i])}
    IN  IF keep = {} THEN <<>> ELSE SubSeq(s, MinOf(keep), Len(s))

Strip(s) ==
    LET keep == {i \in 1..Len(s) : ~IsSpace(s[i])}
    IN  IF keep = {} THEN <<>> ELSE SubSeq(s, MinOf(keep), MaxOf(keep))

RemoveSpace(s) == SelectSeq(s, LAMBDA c : ~IsSpace(c))

\* the indices of s that Keep holds of, in order
Indices(s, Keep(_)) == SelectSeq([i \in 1..Len(s) |-> i], Keep)

\* a line ends at a line break character; "\r\n" is one break, and the text
\* after the last break is a line when it is not empty
splitlines(s) ==
    LET n       == Len(s)
        crlf(i) == s[i] = 13 /\ i < n /\ s[i + 1] = 10
        brk(i)  == IsLineBreak(s[i]) /\ ~(s[i] = 10 /\ i > 1 /\ s[i - 1] = 13)
        bs      == Indices(s, brk)
        from(k) == IF k = 1 THEN 1
                   ELSE bs[k - 1] + (IF crlf(bs[k - 1]) THEN 2 ELSE 1)
        rest    == SubSeq(s, from(Len(bs) + 1), n)
    IN  [k \in 1..Len(bs) |-> SubSeq(s, from(k), bs[k] - 1)]
        \o (IF rest = <<>> THEN <<>> ELSE <<rest>>)

RECURSIVE JoinLF(_)
JoinLF(ls) ==
    IF ls = <<>> THEN <<>>
    ELSE IF Len(ls) = 1 THEN ls[1]
    ELSE ls[1] \o <<10>> \o JoinLF(Tail(ls))

(***************************************************************************)
(* The text normalizer                                                     *)
(***************************************************************************)
is_empty_line_keeps_blanks(line) == line = <<>>

is_empty_line(line) == Strip(line) = <<>>

remove_empty_lines_normalized(t) ==
    JoinLF(SelectSeq(splitlines(t), LAMBDA line : ~is_empty_line(line)))

(***************************************************************************)
(* base64.b64decode(s, validate=True) and bytes.decode                     *)
(***************************************************************************)
IsB64Char(c) == c \in 65..90 \cup 97..122 \cup 48..57 \cup {43, 47}

B64Value(c) ==
    IF c \in 65..90 THEN c - 65
    ELSE IF c \in 97..122 THEN c - 71
    ELSE IF c \in 48..57 THEN c + 4
    ELSE IF c = 43 THEN 62
    ELSE 63

\* the bytes of a sequence of 6-bit values
B64Bytes(v) ==
    [j \in 1..((Len(v) * 3) \div 4) |->
        LET g == 4 * ((j - 1) \div 3)
        IN  CASE (j - 1) % 3 = 0 -> v[g + 1] * 4 + v[g + 2] \div 16
              [] (j - 1) % 3 = 1 -> (v[g + 2] % 16) * 16 + v[g + 3] \div 4
              [] OTHER           -> (v[g + 3] % 4) * 64 + v[g + 4]]

b64decode(s) ==
    LET data == {i \in 1..Len(s) : s[i] # 61}
        d    == IF data = {} THEN 0 ELSE MaxOf(data)
        pads == Len(s) - d
        ok   == /\ \A i \in 1..d : IsB64Char(s[i])
                /\ CASE d = 0     -> pads = 0
                     [] d % 4 = 0 -> pads <= 2
                     [] d % 4 = 1 -> FALSE
                     [] d % 4 = 2 -> pads = 2
                     [] OTHER     -> pads = 1
    IN  IF ok THEN Some(B64Bytes([i \in 1..d |-> B64Value(s[i])])) ELSE None

Utf8Lead(b, i) == b[i] \in 194..223 /\ i < Len(b) /\ b[i + 1] \in 128..191

Utf8Trail(b, i) == b[i] \in 128..191 /\ i > 1 /\ b[i - 1] \in 194..223

Utf8Point(b, i) ==
    IF b[i] < 128 THEN b[i] ELSE (b[i] - 192) * 64 + (b[i + 1] - 128)

\* the code points of the one- and two-byte sequences of b
Utf8Points(b) ==
    LET starts == Indices(b, LAMBDA i : b[i] < 128 \/ Utf8Lead(b, i))
    IN  [k \in 1..Len(starts) |-> Utf8Point(b, starts[k])]

\* bytes.decode("utf-8") for one- and two-byte sequences; None: UnicodeDecodeError
Utf8Decode(b) ==
    IF \A i \in 1..Len(b) : b[i] < 128 \/ Utf8Lead(b, i) \/ Utf8Trail(b, i)
    THEN Some(Utf8Points(b))
    ELSE None

\* utf-8, and latin1 (byte n is code point n) when that fails
DecodeText(b) == IF Utf8Decode(b).some THEN Utf8Decode(b).v ELSE b

\* txt.replace("\r\n", "\n").replace("\r", "\n")
NormalizeEOL(s) ==
    LET kept == Indices(s, LAMBDA i : ~(s[i] = 13 /\ i < Len(s) /\ s[i + 1] = 10))
    IN  [k \in 1..Len(kept) |-> IF s[kept[k]] = 13 THEN 10 ELSE s[kept[k]]]

(***************************************************************************)
(* The payload decoder                                                     *)
(***************************************************************************)
HeadWindow == 64

IsNonTextOff(b) == b = 0 \/ b <= 9 \/ (14 <= b /\ b < 32)

IsNonText(b) == b = 0 \/ b < 9 \/ (14 <= b /\ b < 32)

LooksBinary(bytes) ==
    LET hd       == Take(bytes, HeadWindow)
        non_text == Cardinality({i \in 1..Len(hd) : IsNonText(hd[i])})
    IN  hd # <<>> /\ 100 * non_text > 30 * Len(hd)

decode_rawitemdata_base64(r) ==
    LET clean == RemoveSpace(r)
        dec   == b64decode(clean)
        txt   == Strip(NormalizeEOL(DecodeText(dec.v)))
    IN  IF clean = <<>> THEN None
        ELSE IF ~dec.some THEN None
        ELSE IF dec.v = <<>> THEN None
        ELSE IF LooksBinary(dec.v) THEN None
        ELSE IF txt = <<>> THEN None
        ELSE Some(txt)

(***************************************************************************)
(* Configuration.  A str is a tuple of pieces, "java" is <<"java">>, so    *)
(* that a qualified tag, "{ns}java", has parts: <<"{", "ns", "}", "java">>.*)
(***************************************************************************)
INTERESTING_XML_TAGS ==
    {<<"lotusscript">>, <<"formula">>, <<"rawitemdata">>, <<"java">>}

IGNORE_EXTENSIONS == {".png", ".jpg", ".jpeg", ".gif", ".metadata", ".xml"}

ALWAYS_PROCESS_AS_TEXT_EXTENSIONS == {".lss", ".lsa"}

\* b"GIF89", b"\x89PNG", FF D8 FF E0 00 10 4A 46 49 46
IGNORE_MAGIC_PREFIXES ==
    << <<71, 73, 70, 56, 57>>,
       <<137, 80, 78, 71>>,
       <<255, 216, 255, 224, 0, 16, 74, 70, 73, 70>> >>

ZNANE_XML_DATOTEKE ==
    {".fa", ".form", ".column", ".wsdl", ".lsdb", ".folder", ".formset",
     ".page", ".view", ".field", ".outline", ".subform", ".javalib"}

GLOBAL_BLOCKED_TAGS == cfg.global

PER_EXTENSION_BLOCKED_TAGS == cfg.perext

\* the configuration as the source file has it: nothing is blocked
ShippedConfig == [global |-> {}, perext |-> [e \in {} |-> {}]]

\* str.lower, on the extensions the model's files have
Lower(ext) ==
    CASE ext = ".PNG"  -> ".png"
      [] ext = ".FORM" -> ".form"
      [] ext = ".LSS"  -> ".lss"
      [] OTHER         -> ext

(***************************************************************************)
(* Files and reads                                                         *)
(***************************************************************************)
Bytes(b) == [k |-> "text", s |-> b, tag |-> <<>>]

Open(t) == [k |-> "open", s |-> <<>>, tag |-> t]

Close(t) == [k |-> "close", s |-> <<>>, tag |-> t]

\* a tag's bytes: its delimiters, and one letter for each piece of its name
ChunkBytes(c) ==
    CASE c.k = "text"  -> c.s
      [] c.k = "open"  -> <<60>> \o [i \in 1..Len(c.tag) |-> 120] \o <<62>>
      [] c.k = "close" -> <<60, 47>> \o [i \in 1..Len(c.tag) |-> 120] \o <<62>>

\* f.read(n)
ReadBytes(data, n) == Take(Concat([i \in 1..Len(data) |-> ChunkBytes(data[i])]), n)

should_skip_by_extension(ext) == Lower(ext) \in IGNORE_EXTENSIONS

HeaderLength == MaxOf({Len(IGNORE_MAGIC_PREFIXES[i]) : i \in DOMAIN IGNORE_MAGIC_PREFIXES})

read_header(data, ok) == IF ok THEN ReadBytes(data, HeaderLength) ELSE <<>>

starts_with_any(data, prefixes) ==
    \E i \in DOMAIN prefixes : StartsWith(data, prefixes[i])

should_skip_by_header(hdr) ==
    IF hdr = <<>> THEN FALSE ELSE starts_with_any(hdr, IGNORE_MAGIC_PREFIXES)

\* bytes.decode("utf-8", errors="ignore"): the bytes that decode, decoded
Utf8Ignore(b) == Utf8Points(b)

SniffLength == 128

\* hd: the SniffLength bytes read, None when the read was not made or failed
is_probably_xml(ext, hd) ==
    IF Lower(ext) \in ZNANE_XML_DATOTEKE THEN TRUE
    ELSE IF ~hd.some THEN FALSE
    ELSE LET t == LStrip(Utf8Ignore(hd.v))
         IN  StartsWith(t, <<60, 63, 120, 109, 108>>) \/ StartsWith(t, <<60>>)

\* load_xml_text, process_plain_text_file: utf-8 for the whole file, else latin1
DecodeData(data) ==
    LET valid == \A i \in 1..Len(data) : Utf8Decode(data[i].s).some
    IN  [i \in 1..Len(data) |->
            IF data[i].k # "text" THEN data[i]
            ELSE Bytes(IF valid THEN Utf8Decode(data[i].s).v ELSE data[i].s)]

load_xml_text(data) == DecodeData(data)

\* the text of a file that holds no markup
PlainTextOf(data) == Concat([i \in 1..Len(data) |-> ChunkBytes(DecodeData(data)[i])])

(***************************************************************************)
(* xml.etree.ElementTree.fromstring, on chunks                             *)
(***************************************************************************)
XmlChar(c) == c \in {9, 10, 13} \/ c >= 32

XmlSpace(c) == c \in {9, 10, 13, 32}

ParseStep(st, t) ==
    LET fail == [st EXCEPT !.ok = FALSE]
        top  == Head(st.open)
    IN  IF ~st.ok THEN st
        ELSE IF t.k = "open" THEN
            IF st.closed THEN fail
            ELSE LET id     == Len(st.nodes) + 1
                     linked == IF st.open = <<>> THEN st.nodes
                               ELSE [st.nodes EXCEPT ![top].children = Append(@, id)]
                 IN  [st EXCEPT
                        !.nodes = Append(linked, [tag |-> t.tag, text |-> <<>>,
                                                  children |-> <<>>]),
                        !.open  = <<id>> \o @]
        ELSE IF t.k = "close" THEN
            IF st.open = <<>> THEN fail
            ELSE IF st.nodes[top].tag # t.tag THEN fail
            ELSE [st EXCEPT !.open = Tail(@), !.closed = (Tail(st.open) = <<>>)]
        ELSE IF \E i \in 1..Len(t.s) : ~XmlChar(t.s[i]) THEN fail
        ELSE IF st.open = <<>> THEN
            (IF \A i \in 1..Len(t.s) : XmlSpace(t.s[i]) THEN st ELSE fail)
        ELSE IF st.nodes[top].children = <<>>
             THEN [st EXCEPT !.nodes[top].text = @ \o NormalizeEOL(t.s)]
        ELSE st  \* the tail of a child: no element's text

RECURSIVE ParseFrom(_, _, _)
ParseFrom(toks, i, st) ==
    IF i > Len(toks) THEN st ELSE ParseFrom(toks, i + 1, ParseStep(st, toks[i]))

\* [ok, nodes]: nodes[1] is the root; ~ok: ET.ParseError
fromstring(toks) ==
    LET st == ParseFrom(toks, 1, [nodes |-> <<>>, open |-> <<>>,
                                   closed |-> FALSE, ok |-> TRUE])
    IN  [ok |-> st.ok /\ st.closed, nodes |-> st.nodes]

(***************************************************************************)
(* The markup fragment extractor                                           *)
(***************************************************************************)
get_local_tag(tag) ==
    LET braces == {i \in 1..Len(tag) : tag[i] = "}"}
    IN  IF braces # {} THEN SubSeq(tag, MaxOf(braces) + 1, Len(tag)) ELSE tag

is_blocked_tag_exact_ext(local_tag, ext) ==
    \/ local_tag \in GLOBAL_BLOCKED_TAGS
    \/ ext \in DOMAIN PER_EXTENSION_BLOCKED_TAGS
         /\ local_tag \in PER_EXTENSION_BLOCKED_TAGS[ext]

is_blocked_tag(local_tag, ext) ==
    \/ local_tag \in GLOBAL_BLOCKED_TAGS
    \/ Lower(ext) \in DOMAIN PER_EXTENSION_BLOCKED_TAGS
         /\ local_tag \in PER_EXTENSION_BLOCKED_TAGS[Lower(ext)]

Inc(st, k) == [st EXCEPT ![k] = @ + 1]

\* the body of walk for one element: the fragments and the counters after it
VisitCountsEmpty(elem, file_ext, ls, st) ==
    LET local == get_local_tag(elem.tag)
        txt   == Strip(elem.text)
        dec   == decode_rawitemdata_base64(txt)
        clean == remove_empty_lines_normalized(txt)
    IN  IF ~is_blocked_tag(local, file_ext) /\ local \in INTERESTING_XML_TAGS
        THEN IF local = <<"rawitemdata">>
             THEN IF dec.some
                  THEN [lines |-> Append(ls, remove_empty_lines_normalized(dec.v)),
                        stats |-> Inc(st, "rawitemdata_text")]
                  ELSE [lines |-> ls,
                        stats |-> Inc(st, "rawitemdata_binary_or_failed")]
             ELSE IF txt # <<>> /\ clean # <<>>
                  THEN [lines |-> Append(ls, clean),
                        stats |-> IF local = <<"java">>
                                  THEN [st EXCEPT !["java_lines"] =
                                            @ + Len(splitlines(clean))]
                                  ELSE st]
                  ELSE [lines |-> ls, stats |-> st]
        ELSE [lines |-> ls, stats |-> st]

Visit(elem, file_ext, ls, st) ==
    LET local == get_local_tag(elem.tag)
        txt   == Strip(elem.text)
        dec   == decode_rawitemdata_base64(txt)
        clean == remove_empty_lines_normalized(txt)
    IN  IF ~is_blocked_tag(local, file_ext) /\ local \in INTERESTING_XML_TAGS
        THEN IF local = <<"rawitemdata">>
             THEN IF txt # <<>>
                  THEN IF dec.some
                       THEN [lines |-> Append(ls, remove_empty_lines_normalized(dec.v)),
                             stats |-> Inc(st, "rawitemdata_text")]
                       ELSE [lines |-> ls,
                             stats |-> Inc(st, "rawitemdata_binary_or_failed")]
                  ELSE [lines |-> ls, stats |-> st]
             ELSE IF txt # <<>> /\ clean # <<>>
                  THEN [lines |-> Append(ls, clean),
                        stats |-> IF local = <<"java">>
                                  THEN [st EXCEPT !["java_lines"] =
                                            @ + Len(splitlines(clean))]
                                  ELSE st]
                  ELSE [lines |-> ls, stats |-> st]
        ELSE [lines |-> ls, stats |-> st]

\* the elements walk enters after elem, before those already waiting
ChildrenReversed(elem, waiting) ==
    [i \in 1..Len(elem.children) |->
        elem.children[Len(elem.children) + 1 - i]] \o waiting

ChildrenFirst(elem, waiting) == elem.children \o waiting

\* what extract_interesting_xml_fragments returns when the parse fails
FallbackEmpty(txt) == <<>>

Fallback(txt) == txt

\* and what it returns after the traversal
Joined(ls) == IF ls = <<>> THEN <<>> ELSE JoinLF(ls)

(***************************************************************************)
(* Statistics                                                              *)
(***************************************************************************)
init_stats ==
    [total_files |-> 0, processed_files |-> 0, skipped_files |-> 0,
     skipped_by_ext |-> 0, skipped_by_header |-> 0, xml_files |-> 0,
     rawitemdata_text |-> 0, rawitemdata_binary_or_failed |-> 0,
     java_lines |-> 0]

CountSkippedByExt(st) == Inc(Inc(st, "skipped_files"), "skipped_by_ext")

CountSkippedByHeaderAsExt(st) == Inc(Inc(st, "skipped_files"), "skipped_by_ext")

CountSkippedByHeader(st) == Inc(Inc(st, "skipped_files"), "skipped_by_header")

CountUnhandledForgotten(st) == st

CountUnhandled(st) == Inc(st, "skipped_files")

CountXml(st) == Inc(Inc(st, "xml_files"), "processed_files")

CountPlainText(st) == Inc(st, "processed_files")

(***************************************************************************)
(* process_single_file                                                     *)
(***************************************************************************)
RouteHeaderLast(ext, hdr, hd) ==
    IF should_skip_by_extension(ext) THEN "SkipExtension"
    ELSE IF is_probably_xml(ext, hd) THEN "Markup"
    ELSE IF Lower(ext) \in ALWAYS_PROCESS_AS_TEXT_EXTENSIONS THEN "PlainText"
    ELSE IF should_skip_by_header(hdr) THEN "SkipHeader"
    ELSE "SkipUnhandled"

\* the route taken, given what the reads returned
Route(ext, hdr, hd) ==
    IF should_skip_by_extension(ext) THEN "SkipExtension"
    ELSE IF should_skip_by_header(hdr) THEN "SkipHeader"
    ELSE IF is_probably_xml(ext, hd) THEN "Markup"
    ELSE IF Lower(ext) \in ALWAYS_PROCESS_AS_TEXT_EXTENSIONS THEN "PlainText"
    ELSE "SkipUnhandled"

\* the header as read (okH: the open succeeded); not read for an ignored extension
HeaderRead(f, okH) ==
    IF should_skip_by_extension(f.ext) THEN <<>> ELSE read_header(f.data, okH)

\* the bytes is_probably_xml read (okS: the open succeeded); it reads only
\* when it is called and the extension does not settle it
HeadRead(f, okH, okS) ==
    IF \/ should_skip_by_extension(f.ext)
       \/ should_skip_by_header(HeaderRead(f, okH))
       \/ Lower(f.ext) \in ZNANE_XML_DATOTEKE
       \/ ~okS
    THEN None
    ELSE Some(ReadBytes(f.data, SniffLength))

\* the call is entered for the next file of the walk and takes route r
Enter(f, okH, okS, r) ==
    /\ pc = "walk"
    /\ pending > 0
    /\ pending' = pending - 1
    /\ cur' = Some(f)
    /\ stats0' = stats
    /\ header' = HeaderRead(f, okH)
    /\ head' = HeadRead(f, okH, okS)
    /\ decision' = Route(f.ext, header', head')
    /\ decision' = r

NoXml == UNCHANGED <<xml_text, tree, stack, visited, lines, extracted>>

Aside == UNCHANGED <<cfg, source, payload, raw, decoded, text, once, twice>>

SkipByExtension ==
    \E f \in source, okH, okS \in BOOLEAN :
        /\ Enter(f, okH, okS, "SkipExtension")
        /\ stats' = CountSkippedByExt(Inc(stats, "total_files"))
        /\ pc' = "returned"
        /\ NoXml /\ Aside /\ UNCHANGED outfile

SkipByHeader ==
    \E f \in source, okH, okS \in BOOLEAN :
        /\ Enter(f, okH, okS, "SkipHeader")
        /\ stats' = CountSkippedByHeader(Inc(stats, "total_files"))
        /\ pc' = "returned"
        /\ NoXml /\ Aside /\ UNCHANGED outfile

SkipUnhandled ==
    \E f \in source, okH, okS \in BOOLEAN :
        /\ Enter(f, okH, okS, "SkipUnhandled")
        /\ stats' = CountUnhandled(Inc(stats, "total_files"))
        /\ pc' = "returned"
        /\ NoXml /\ Aside /\ UNCHANGED outfile

\* process_plain_text_file: the file is read, cleaned and written
PlainText ==
    \E f \in source, okH, okS \in BOOLEAN :
        /\ Enter(f, okH, okS, "PlainText")
        /\ outfile' = Some(remove_empty_lines_normalized(PlainTextOf(f.data)))
        /\ stats' = CountPlainText(Inc(stats, "total_files"))
        /\ pc' = "returned"
        /\ NoXml /\ Aside

\* process_plain_text_file: open or read raises OSError, which nothing catches
PlainTextReadFails ==
    \E f \in source, okH, okS \in BOOLEAN :
        /\ Enter(f, okH, okS, "PlainText")
        /\ stats' = Inc(stats, "total_files")
        /\ pc' = "raised"
        /\ NoXml /\ Aside /\ UNCHANGED outfile

\* process_xml_file: load_xml_text raises OSError, which nothing catches
XmlReadFails ==
    \E f \in source, okH, okS \in BOOLEAN :
        /\ Enter(f, okH, okS, "Markup")
        /\ stats' = Inc(stats, "total_files")
        /\ pc' = "raised"
        /\ NoXml /\ Aside /\ UNCHANGED outfile

\* process_xml_file when the text does not parse: the text itself is the result
XmlParseError ==
    \E f \in source, okH, okS \in BOOLEAN :
        /\ Enter(f, okH, okS, "Markup")
        /\ xml_text' = Some(load_xml_text(f.data))
        /\ ~fromstring(xml_text'.v).ok
        /\ extracted' = Some(Fallback(xml_text'.v))
        /\ outfile' = IF extracted'.v # <<>> THEN extracted' ELSE None
        /\ stats' = CountXml(Inc(stats, "total_files"))
        /\ pc' = "returned"
        /\ Aside /\ UNCHANGED <<tree, stack, visited, lines>>

\* process_xml_file up to the call walk(root, [])
XmlParsed ==
    \E f \in source, okH, okS \in BOOLEAN :
        /\ Enter(f, okH, okS, "Markup")
        /\ xml_text' = Some(load_xml_text(f.data))
        /\ fromstring(xml_text'.v).ok
        /\ tree' = fromstring(xml_text'.v).nodes
        /\ stack' = <<1>>
        /\ visited' = <<>>
        /\ lines' = <<>>
        /\ stats' = Inc(stats, "total_files")
        /\ pc' = "extract"
        /\ Aside /\ UNCHANGED <<extracted, outfile>>

\* walk enters the next element; its children wait before its later siblings
Walk ==
    /\ pc = "extract"
    /\ stack # <<>>
    /\ LET elem  == tree[Head(stack)]
           after == Visit(elem, cur.v.ext, lines, stats)
       IN  /\ lines' = after.lines
           /\ stats' = after.stats
           /\ stack' = ChildrenFirst(elem, Tail(stack))
           /\ visited' = Append(visited, Head(stack))
    /\ Aside
    /\ UNCHANGED <<pc, pending, stats0, cur, decision, header, head, xml_text,
                   tree, extracted, outfile>>

\* the traversal is over: the fragments are joined, written and counted
XmlDone ==
    /\ pc = "extract"
    /\ stack = <<>>
    /\ extracted' = Some(Joined(lines))
    /\ outfile' = IF extracted'.v # <<>> THEN extracted' ELSE None
    /\ stats' = CountXml(stats)
    /\ pc' = "returned"
    /\ Aside
    /\ UNCHANGED <<pending, stats0, cur, decision, header, head, xml_text,
                   tree, stack, visited, lines>>

\* process_tree's loop goes on to the next file name
NextFile ==
    /\ pc = "returned"
    /\ pc' = "walk"
    /\ cur' = None /\ decision' = "None"
    /\ header' = <<>> /\ head' = None
    /\ xml_text' = None /\ tree' = <<>> /\ stack' = <<>> /\ visited' = <<>>
    /\ lines' = <<>> /\ extracted' = None /\ outfile' = None
    /\ Aside /\ UNCHANGED <<pending, stats, stats0>>

\* the walk is over: print_stats reads the counters
Finish ==
    /\ pc = "walk"
    /\ pending = 0
    /\ pc' = "done"
    /\ Aside
    /\ UNCHANGED <<pending, stats, stats0, cur, decision, header, head, xml_text,
                   tree, stack, visited, lines, extracted, outfile>>

(***************************************************************************)
(* The decoder applied to encoded byte strings                             *)
(***************************************************************************)
B64Char(v) ==
    IF v < 26 THEN 65 + v
    ELSE IF v < 52 THEN 71 + v
    ELSE IF v < 62 THEN v - 4
    ELSE IF v = 62 THEN 43
    ELSE 47

B64Encode(b) ==
    LET n     == Len(b)
        at(i) == IF i <= n THEN b[i] ELSE 0
    IN  [k \in 1..(4 * ((n + 2) \div 3)) |->
            LET g == 3 * ((k - 1) \div 4)
            IN  CASE (k - 1) % 4 = 0 -> B64Char(at(g + 1) \div 4)
                  [] (k - 1) % 4 = 1 ->
                        B64Char((at(g + 1) % 4) * 16 + at(g + 2) \div 16)
                  [] (k - 1) % 4 = 2 ->
                        IF g + 2 > n THEN 61
                        ELSE B64Char((at(g + 2) % 16) * 4 + at(g + 3) \div 64)
                  [] OTHER ->
                        IF g + 3 > n THEN 61 ELSE B64Char(at(g + 3) % 64)]

\* a line feed after every fourth character, as wrapped base64 has them
RECURSIVE Wrapped(_)
Wrapped(s) ==
    IF Len(s) <= 4 THEN s
    ELSE SubSeq(s, 1, 4) \o <<10>> \o Wrapped(SubSeq(s, 5, Len(s)))

ByteSamples == {0, 8, 9, 13, 14, 31, 32, 65}

\* byte strings of up to MaxLen bytes: up to MaxCtl of one sample, then letters
RunPayloads ==
    {Rep(b, IF c < n THEN c ELSE n) \o Rep(65, IF c < n THEN n - c ELSE 0) :
        b \in ByteSamples, n \in 1..MaxLen, c \in 0..MaxCtl}

\* "Hi\r\n\r\nyo", e-acute in utf-8, a byte that is no utf-8, white space only,
\* and control bytes only after the first HeadWindow bytes
OddPayloads ==
    { <<72, 105, 13, 10, 13, 10, 121, 111>>, <<195, 169, 13, 97>>,
      <<255, 65>>, <<32, 13, 10, 9>>, <<194, 160>>,
      Rep(65, HeadWindow) \o Rep(0, HeadWindow) }

\* strings that encode nothing: empty, white space, a foreign character,
\* bad padding, one data character too many
BadRaws ==
    { <<>>, <<32, 10>>, <<81, 33, 81, 61>>, <<81, 81>>, <<81, 85, 73>>,
      <<81, 85, 74, 68, 81>>, <<61, 61>> }

InitDecode ==
    /\ \/ \E p \in RunPayloads : payload = Some(p) /\ raw = B64Encode(p)
       \/ \E p \in OddPayloads :
            payload = Some(p) /\ raw = <<32>> \o Wrapped(B64Encode(p)) \o <<10>>
       \/ \E r \in BadRaws : payload = None /\ raw = r
    /\ pc = "raw"
    /\ decoded = None
    /\ text = <<>> /\ once = None /\ twice = None
    /\ cfg = ShippedConfig
    /\ source = {} /\ pending = 0
    /\ stats = init_stats /\ stats0 = init_stats
    /\ cur = None /\ decision = "None"
    /\ header = <<>> /\ head = None
    /\ xml_text = None /\ tree = <<>> /\ stack = <<>> /\ visited = <<>>
    /\ lines = <<>> /\ extracted = None /\ outfile = None

Decode ==
    /\ pc = "raw"
    /\ decoded' = decode_rawitemdata_base64(raw)
    /\ pc' = "decoded"
    /\ UNCHANGED <<pipeVars, payload, raw, text, once, twice>>

NextDecode == Decode

SpecDecode == InitDecode /\ [][NextDecode]_vars

(***************************************************************************)
(* The normalizer applied to a text and to its own result                  *)
(***************************************************************************)
TextAlphabet == {97, 32, 10, 13, 11, 31}

RECURSIVE SeqsUpTo(_, _)
SeqsUpTo(S, n) ==
    IF n = 0 THEN {<<>>}
    ELSE LET shorter == SeqsUpTo(S, n - 1)
         IN  shorter \cup {Append(s, c) : s \in {x \in shorter : Len(x) = n - 1}, c \in S}

Texts == SeqsUpTo(TextAlphabet, MaxText)

InitNorm ==
    /\ text \in Texts
    /\ pc = "text"
    /\ once = None /\ twice = None
    /\ payload = None /\ raw = <<>> /\ decoded = None
    /\ cfg = ShippedConfig
    /\ source = {} /\ pending = 0
    /\ stats = init_stats /\ stats0 = init_stats
    /\ cur = None /\ decision = "None"
    /\ header = <<>> /\ head = None
    /\ xml_text = None /\ tree = <<>> /\ stack = <<>> /\ visited = <<>>
    /\ lines = <<>> /\ extracted = None /\ outfile = None

Normalize ==
    /\ pc = "text"
    /\ once' = Some(remove_empty_lines_normalized(text))
    /\ pc' = "once"
    /\ UNCHANGED <<pipeVars, payload, raw, decoded, text, twice>>

NormalizeAgain ==
    /\ pc = "once"
    /\ twice' = Some(remove_empty_lines_normalized(once.v))
    /\ pc' = "twice"
    /\ UNCHANGED <<pipeVars, payload, raw, decoded, text, once>>

NextNorm == Normalize \/ NormalizeAgain

SpecNorm == InitNorm /\ [][NextNorm]_vars

(***************************************************************************)
(* The walk over a tree of sample files                                    *)
(***************************************************************************)
SampleExts == {".png", ".PNG", ".form", ".FORM", ".lss", ".LSS", ".txt", ""}

\* GIF89a..., \x89PNG\r\n..., a JFIF header, a JPEG header that is not JFIF
GifData == <<Bytes(<<71, 73, 70, 56, 57, 97, 1, 0>>)>>

PngData == <<Bytes(<<137, 80, 78, 71, 13, 10, 26, 10>>)>>

JfifData == <<Bytes(<<255, 216, 255, 224, 0, 16, 74, 70, 73, 70, 0, 1>>)>>

ExifData == <<Bytes(<<255, 216, 255, 225>>)>>

\* <form><lotusscript>Dim x\n\nEnd</lotusscript></form>
ScriptXml ==
    <<Open(<<"form">>), Open(<<"lotusscript">>), Bytes(<<68, 105, 109, 32, 120, 10, 10, 69, 110, 100>>),
      Close(<<"lotusscript">>), Close(<<"form">>)>>

\* white space, then a note with a text payload, 64 null bytes and java code
PayloadXml ==
    <<Bytes(<<32, 10>>), Open(<<"{", "dxl", "}", "note">>),
      Open(<<"rawitemdata">>), Bytes(B64Encode(<<83, 117, 98, 32, 70, 111, 111, 10, 69, 110, 100, 32, 83, 117, 98>>)), Close(<<"rawitemdata">>),
      Open(<<"rawitemdata">>), Bytes(B64Encode(Rep(0, HeadWindow))), Close(<<"rawitemdata">>),
      Open(<<"java">>), Bytes(<<105, 110, 116, 32, 97, 59, 10, 10, 105, 110, 116, 32, 98, 59>>), Close(<<"java">>),
      Close(<<"{", "dxl", "}", "note">>)>>

UnclosedXml == <<Open(<<"form">>), Open(<<"java">>), Bytes(<<97>>)>>

\* the markup starts after SniffLength spaces
LateXml == <<Bytes(Rep(32, SniffLength)), Open(<<"form">>), Close(<<"form">>)>>

\* a byte that is no utf-8, then markup
Latin1Xml == <<Bytes(<<255>>), Open(<<"form">>), Close(<<"form">>)>>

\* Sub Foo\r\n\r\n \r\nEnd Sub\r\n
ScriptText == <<Bytes(<<83, 117, 98, 32, 70, 111, 111, 13, 10, 13, 10, 32, 13, 10, 69, 110, 100, 32, 83, 117, 98, 13, 10>>)>>

SampleData ==
    {GifData, PngData, JfifData, ExifData, ScriptXml, PayloadXml, UnclosedXml,
     LateXml, Latin1Xml, ScriptText, <<>>}

SampleFiles == [ext : SampleExts, data : SampleData]

Init ==
    /\ cfg = ShippedConfig
    /\ source = SampleFiles
    /\ pending \in 0..MaxFiles
    /\ pc = "walk"
    /\ stats = init_stats /\ stats0 = init_stats
    /\ cur = None /\ decision = "None"
    /\ header = <<>> /\ head = None
    /\ xml_text = None /\ tree = <<>> /\ stack = <<>> /\ visited = <<>>
    /\ lines = <<>> /\ extracted = None /\ outfile = None
    /\ payload = None /\ raw = <<>> /\ decoded = None
    /\ text = <<>> /\ once = None /\ twice = None

Next ==
    \/ SkipByExtension
    \/ SkipByHeader
    \/ SkipUnhandled
    \/ PlainText
    \/ PlainTextReadFails
    \/ XmlReadFails
    \/ XmlParseError
    \/ XmlParsed
    \/ Walk
    \/ XmlDone
    \/ NextFile
    \/ Finish

Spec == Init /\ [][Next]_vars

(***************************************************************************)
(* The extractor on one markup file, under block rules                     *)
(***************************************************************************)
RECURSIVE AncestorsAndSelf(_, _)
AncestorsAndSelf(p, j) == IF j = 0 THEN {} ELSE {j} \cup AncestorsAndSelf(p, p[j])

\* parent vectors of the trees of n elements numbered in document order
Parents(n) ==
    {p \in [1..n -> 0..(n - 1)] :
        /\ p[1] = 0
        /\ \A i \in 2..n : p[i] \in AncestorsAndSelf(p, i - 1)}

\* x; a\n \nb with white space around it; base64 of "Hi"; base64 of 00 00 07
Labels ==
    { [tag |-> <<"form">>, text |-> <<120>>],
      [tag |-> <<"java">>, text |-> <<32, 97, 10, 32, 10, 98, 10>>],
      [tag |-> <<"rawitemdata">>, text |-> B64Encode(<<72, 105>>)],
      [tag |-> <<"rawitemdata">>, text |-> B64Encode(<<0, 0, 7>>)] }

Trees ==
    UNION {[n : {n}, parent : Parents(n), label : [1..n -> Labels]] : n \in 1..MaxNodes}

ChildrenOf(T, i) ==
    LET kids == {j \in 1..T.n : T.parent[j] = i}
    IN  [k \in 1..Cardinality(kids) |->
            CHOOSE j \in kids : Cardinality({x \in kids : x < j}) = k - 1]

\* the document of tree T from element i on; tails: each child is followed by text
RECURSIVE Serialise(_, _, _)
Serialise(T, i, tails) ==
    LET kids == ChildrenOf(T, i)
    IN  <<Open(T.label[i].tag), Bytes(T.label[i].text)>>
        \o Concat([k \in 1..Len(kids) |->
                      Serialise(T, kids[k], tails)
                      \o (IF tails THEN <<Bytes(<<116>>)>> ELSE <<>>)])
        \o <<Close(T.label[i].tag)>>

\* documents that do not parse: the last end tag missing or wrong, text before
\* the root, a second root, a control character
Damaged(doc) ==
    { SubSeq(doc, 1, Len(doc) - 1),
      SubSeq(doc, 1, Len(doc) - 1) \o <<Close(<<"other">>)>>,
      <<Bytes(<<120>>)>> \o doc,
      doc \o <<Open(<<"java">>), Close(<<"java">>)>>,
      SubSeq(doc, 1, Len(doc) - 1) \o <<Bytes(<<1>>), doc[Len(doc)]>>,
      <<>> }

Elem(tag, txt) == <<Open(tag), Bytes(txt), Close(tag)>>

\* single elements: a qualified tag, the other interesting tags, payloads that
\* are empty, white space, no base64, or white space once decoded
OddDocs ==
    { Elem(<<"{", "dxl", "}", "java">>, <<97>>),
      Elem(<<"{", "dxl", "}", "rawitemdata">>, B64Encode(<<72, 105>>)),
      Elem(<<"formula">>, <<97, 13, 10, 98>>),
      Elem(<<"lotusscript">>, <<32, 10, 32>>),
      Elem(<<"java">>, <<>>),
      Elem(<<"rawitemdata">>, <<>>),
      Elem(<<"rawitemdata">>, <<32, 10>>),
      Elem(<<"rawitemdata">>, <<81, 33, 81, 61>>),
      Elem(<<"rawitemdata">>, B64Encode(<<32, 13, 10>>)),
      Elem(<<"rawitemdata">>, Wrapped(B64Encode(<<72, 105, 10, 10, 121, 111>>))) }

Setups ==
    { [cfg |-> ShippedConfig, ext |-> ".form"],
      [cfg |-> [global |-> {<<"java">>}, perext |-> [e \in {} |-> {}]],
       ext |-> ".form"],
      [cfg |-> [global |-> {},
                perext |-> [e \in {".form"} |-> {<<"rawitemdata">>, <<"form">>}]],
       ext |-> ".FORM"],
      [cfg |-> [global |-> {<<"form">>},
                perext |-> [e \in {".page"} |-> {<<"java">>, <<"rawitemdata">>}]],
       ext |-> ".form"] }

InitXml ==
    /\ \E su \in Setups :
         /\ cfg = su.cfg
         /\ \/ \E T \in Trees, tails \in BOOLEAN :
                 source = {[ext |-> su.ext, data |-> Serialise(T, 1, tails)]}
            \/ \E d \in OddDocs : source = {[ext |-> su.ext, data |-> d]}
            \/ \E T \in Trees : \E d \in Damaged(Serialise(T, 1, FALSE)) :
                 /\ T.n <= 2
                 /\ source = {[ext |-> su.ext, data |-> d]}
    /\ pending = 1
    /\ pc = "walk"
    /\ stats = init_stats /\ stats0 = init_stats
    /\ cur = None /\ decision = "None"
    /\ header = <<>> /\ head = None
    /\ xml_text = None /\ tree = <<>> /\ stack = <<>> /\ visited = <<>>
    /\ lines = <<>> /\ extracted = None /\ outfile = None
    /\ payload = None /\ raw = <<>> /\ decoded = None
    /\ text = <<>> /\ once = None /\ twice = None

NextXml ==
    \/ XmlReadFails
    \/ XmlParseError
    \/ XmlParsed
    \/ Walk
    \/ XmlDone

SpecXml == InitXml /\ [][NextXml]_vars

(***************************************************************************)
(* Properties                                                              *)
(***************************************************************************)
Decisions == {"SkipExtension", "SkipHeader", "Markup", "PlainText", "SkipUnhandled"}

Entered == pc \in {"returned", "extract", "raised"}

ExtIgnored == Lower(cur.v.ext) \in IGNORE_EXTENSIONS

HeaderIsMagic ==
    \E i \in DOMAIN IGNORE_MAGIC_PREFIXES : StartsWith(header, IGNORE_MAGIC_PREFIXES[i])

LooksLikeMarkup ==
    \/ Lower(cur.v.ext) \in ZNANE_XML_DATOTEKE
    \/ head.some /\ StartsWith(LStrip(Utf8Ignore(head.v)), <<60>>)

ExtIsText == Lower(cur.v.ext) \in ALWAYS_PROCESS_AS_TEXT_EXTENSIONS

\* C1: process_single_file takes exactly one of five routes, the first that
\* matches in the order ignored extension, magic header, probably markup,
\* plain-text extension, unhandled; an ignored extension is skipped whatever
\* the file holds, and a magic header is skipped whatever the extension is
\* once the extension is not an ignored one.
C1_FirstMatchingRoute ==
    Entered =>
        /\ decision \in Decisions
        /\ decision = "SkipExtension" <=> ExtIgnored
        /\ decision = "SkipHeader" <=> ~ExtIgnored /\ HeaderIsMagic
        /\ decision = "Markup" <=> ~ExtIgnored /\ ~HeaderIsMagic /\ LooksLikeMarkup
        /\ decision = "PlainText" <=>
              ~ExtIgnored /\ ~HeaderIsMagic /\ ~LooksLikeMarkup /\ ExtIsText
        /\ decision = "SkipUnhandled" <=>
              ~ExtIgnored /\ ~HeaderIsMagic /\ ~LooksLikeMarkup /\ ~ExtIsText

\* a magic header under a markup extension, and markup under an ignored one
C1_Witness ==
    /\ pc = "returned"
    /\ decision = "SkipHeader"
    /\ Lower(cur.v.ext) \in ZNANE_XML_DATOTEKE
    /\ cur.v.ext # Lower(cur.v.ext)

FileCounters ==
    {"processed_files", "skipped_files", "skipped_by_ext", "skipped_by_header",
     "xml_files"}

Changed == {k \in FileCounters : stats[k] # stats0[k]}

\* C2, as stated: a processed file adds 1 to total_files and 1 to exactly one
\* other file counter, and leaves every other file counter alone.
C2_OneCounterPerDecision ==
    pc = "returned" =>
        /\ stats.total_files = stats0.total_files + 1
        /\ Cardinality(Changed) = 1
        /\ \A k \in Changed : stats[k] = stats0[k] + 1

CountersOf(d) ==
    CASE d = "SkipExtension" -> {"skipped_files", "skipped_by_ext"}
      [] d = "SkipHeader"    -> {"skipped_files", "skipped_by_header"}
      [] d = "Markup"        -> {"processed_files", "xml_files"}
      [] d = "PlainText"     -> {"processed_files"}
      [] d = "SkipUnhandled" -> {"skipped_files"}

\* C2, amended: a file adds 1 to total_files whatever the decision; a call that
\* returns adds 1 to skipped_files or to processed_files and 1 to the
\* decision's own counter where it has one (skipped_by_ext, skipped_by_header,
\* xml_files), and a call ended by a read error adds to no other file counter.
C2_CountersPerDecision ==
    pc \in {"returned", "raised"} =>
        /\ stats.total_files = stats0.total_files + 1
        /\ Changed = (IF pc = "raised" THEN {} ELSE CountersOf(decision))
        /\ \A k \in Changed : stats[k] = stats0[k] + 1

C2_Witness ==
    /\ pc = "returned"
    /\ decision = "Markup"
    /\ stats0.total_files = 1
    /\ Changed = {"processed_files", "xml_files"}

\* C3: no read error of a single file leaves process_single_file.
C3_ReadErrorsAbsorbed == pc # "raised"

Unparsable == xml_text.some /\ ~fromstring(xml_text.v).ok

\* C4: when the markup does not parse, the extractor returns to its caller,
\* with the text as it was given, no fragment, no visit and the three extractor
\* counters unchanged; the caller counts the file as a processed markup file.
C4_ParseFailureFallsBack ==
    Unparsable =>
        /\ pc = "returned"
        /\ extracted = Some(xml_text.v)
        /\ lines = <<>> /\ visited = <<>>
        /\ stats.rawitemdata_text = stats0.rawitemdata_text
        /\ stats.rawitemdata_binary_or_failed = stats0.rawitemdata_binary_or_failed
        /\ stats.java_lines = stats0.java_lines
        /\ stats.xml_files = stats0.xml_files + 1
        /\ stats.processed_files = stats0.processed_files + 1

\* a text with a payload element in it that does not parse
C4_Witness ==
    /\ Unparsable
    /\ \E i \in 1..Len(xml_text.v) :
          /\ xml_text.v[i].k = "open"
          /\ xml_text.v[i].tag = <<"rawitemdata">>
          /\ i < Len(xml_text.v)
          /\ xml_text.v[i + 1].s # <<>>
    /\ extracted.v # <<>>

LocalName(elem) == <<elem.tag[Len(elem.tag)]>>

Blocked(elem) ==
    \/ LocalName(elem) \in cfg.global
    \/ \E e \in DOMAIN cfg.perext :
          e = Lower(cur.v.ext) /\ LocalName(elem) \in cfg.perext[e]

Entering == pc = "extract" /\ stack # <<>>

\* C5: entering a blocked element adds no fragment and changes no counter,
\* interesting tag or not, and its children are entered next; when the
\* traversal is over every element of the tree has been entered, once.
C5_BlockedSkippedChildrenVisited ==
    /\ [][Entering /\ Blocked(tree[Head(stack)]) =>
             /\ lines' = lines
             /\ stats' = stats
             /\ stack' = tree[Head(stack)].children \o Tail(stack)]_vars
    /\ [](pc = "returned" /\ xml_text.some /\ ~Unparsable =>
             /\ Len(visited) = Len(tree)
             /\ {visited[i] : i \in 1..Len(visited)} = 1..Len(tree))

IsPayload(elem) ==
    /\ ~Blocked(elem)
    /\ LocalName(elem) = <<"rawitemdata">>
    /\ Strip(elem.text) # <<>>

\* C6: the two payload counters change only when a payload element that is
\* not blocked and has text is entered: then one of them grows by 1, the text
\* counter with one fragment added when the decoder gives text, the other with
\* no fragment added when it gives none.
C6_PayloadCounters ==
    [][IF Entering /\ IsPayload(tree[Head(stack)])
       THEN LET dec == decode_rawitemdata_base64(Strip(tree[Head(stack)].text))
            IN  IF dec.some
                THEN /\ stats'.rawitemdata_text = stats.rawitemdata_text + 1
                     /\ stats'.rawitemdata_binary_or_failed =
                            stats.rawitemdata_binary_or_failed
                     /\ Len(lines') = Len(lines) + 1
                     /\ SubSeq(lines', 1, Len(lines)) = lines
                ELSE /\ stats'.rawitemdata_binary_or_failed =
                            stats.rawitemdata_binary_or_failed + 1
                     /\ stats'.rawitemdata_text = stats.rawitemdata_text
                     /\ lines' = lines
       ELSE /\ stats'.rawitemdata_text = stats.rawitemdata_text
            /\ stats'.rawitemdata_binary_or_failed =
                   stats.rawitemdata_binary_or_failed]_vars

\* a traversal that met a text payload, a binary one and an element that is none
C6_Witness ==
    /\ pc = "returned"
    /\ stats.rawitemdata_text = 1
    /\ stats.rawitemdata_binary_or_failed = 1
    /\ Len(tree) = 3

\* the fragment an element gives, if it gives one
FragmentOf(elem) ==
    LET txt == Strip(elem.text)
        dec == decode_rawitemdata_base64(txt)
    IN  IF Blocked(elem) \/ LocalName(elem) \notin INTERESTING_XML_TAGS \/ txt = <<>>
        THEN <<>>
        ELSE IF LocalName(elem) = <<"rawitemdata">>
        THEN (IF dec.some THEN <<remove_empty_lines_normalized(dec.v)>> ELSE <<>>)
        ELSE IF remove_empty_lines_normalized(txt) = <<>> THEN <<>>
        ELSE <<remove_empty_lines_normalized(txt)>>

\* a blocked payload element with text, under an extension in capitals, one
\* of whose children gave a fragment
C5_Witness ==
    /\ pc = "returned"
    /\ cur.v.ext # Lower(cur.v.ext)
    /\ \E i \in 1..Len(tree) :
          /\ Blocked(tree[i])
          /\ LocalName(tree[i]) = <<"rawitemdata">>
          /\ Strip(tree[i].text) # <<>>
          /\ \E k \in 1..Len(tree[i].children) :
                FragmentOf(tree[tree[i].children[k]]) # <<>>
    /\ lines # <<>>

\* the fragments of the elements in the order of their start tags
RECURSIVE FragmentsFrom(_)
FragmentsFrom(i) ==
    IF i > Len(tree) THEN <<>> ELSE FragmentOf(tree[i]) \o FragmentsFrom(i + 1)

RECURSIVE Separated(_)
Separated(fs) ==
    IF fs = <<>> THEN <<>>
    ELSE IF Tail(fs) = <<>> THEN Head(fs)
    ELSE Head(fs) \o <<10>> \o Separated(Tail(fs))

\* C7: after a parse that succeeded the result is the fragments in document
\* order, an element's before its descendants', one line feed between two
\* fragments, and the empty string when there is none.
C7_FragmentsInDocumentOrder ==
    pc = "returned" /\ xml_text.some /\ ~Unparsable =>
        /\ lines = FragmentsFrom(1)
        /\ extracted = Some(Separated(FragmentsFrom(1)))

\* a root with a fragment and two children with different fragments
C7_Witness ==
    /\ pc = "returned"
    /\ Len(tree) = 3
    /\ Len(tree[1].children) = 2
    /\ Len(lines) = 3
    /\ lines[2] # lines[3]
    /\ lines[1] # lines[2]

IsBlankLine(line) == \A i \in 1..Len(line) : IsSpace(line[i])

\* C8: normalizing twice gives what normalizing once gives; the result has no
\* empty or white-space line, and its lines are the other lines of the text,
\* in their order.
C8_NormalizerIdempotent ==
    /\ pc \in {"once", "twice"} =>
          /\ \A i \in 1..Len(splitlines(once.v)) : ~IsBlankLine(splitlines(once.v)[i])
          /\ splitlines(once.v) =
                SelectSeq(splitlines(text), LAMBDA line : ~IsBlankLine(line))
    /\ pc = "twice" => twice = once

\* a text with carriage returns that lost a line and kept two
C8_Witness ==
    /\ pc = "twice"
    /\ Len(splitlines(text)) = 3
    /\ Len(splitlines(once.v)) = 2
    /\ \E i \in 1..Len(text) : text[i] = 13

Window(b) == IF Len(b) < HeadWindow THEN Len(b) ELSE HeadWindow

ControlCount(b) ==
    Cardinality({i \in 1..Window(b) : b[i] = 0 \/ b[i] < 9 \/ b[i] \in 14..31})

\* C9: of the bytes a payload decodes to, when more than 30% of the first 64
\* (of all, when there are fewer) are 0, below 9 or in 14..31, the decoder
\* gives nothing; at 30% or less the bytes go on to be decoded as text.
C9_BinaryAboveThirtyPercent ==
    pc = "decoded" /\ payload.some /\ payload.v # <<>> =>
        LET c   == ControlCount(payload.v)
            w   == Window(payload.v)
            txt == Strip(NormalizeEOL(DecodeText(payload.v)))
        IN  /\ 10 * c > 3 * w => decoded = None
            /\ 10 * c <= 3 * w =>
                  decoded = (IF txt = <<>> THEN None ELSE Some(txt))

\* exactly 30% of ten bytes, tabs next to them, and text comes out
C9_Witness ==
    /\ pc = "decoded"
    /\ payload.some
    /\ Len(payload.v) = 10
    /\ ControlCount(payload.v) = 3
    /\ payload.v[1] = 8
    /\ decoded.some

Completed == pc \in {"returned", "walk", "done"}

\* C10: after files processed to completion total_files is processed_files
\* plus skipped_files; the two skip reasons stay within skipped_files and
\* xml_files within processed_files; no counter ever decreases.
C10_CounterAccounting ==
    /\ [](/\ Completed =>
               stats.total_files = stats.processed_files + stats.skipped_files
          /\ stats.skipped_by_ext + stats.skipped_by_header <= stats.skipped_files
          /\ stats.xml_files <= stats.processed_files)
    /\ [][\A k \in DOMAIN stats : stats'[k] >= stats[k]]_vars

\* a walk that ended with one file skipped for no reason of the two, one processed
C10_Witness ==
    /\ pc = "done"
    /\ stats.total_files = 2
    /\ stats.skipped_files = 1
    /\ stats.skipped_by_ext + stats.skipped_by_header = 0
    /\ stats.processed_files = 1

====
